---- MODULE Spec2Model ----
(***************************************************************************)
(* A model of the wgpu ray tracer: the frame orchestrator (State::update,  *)
(* State::render, State::resize and the winit event loop of run) together  *)
(* with wgpu's queue semantics, and the scene assembly of State::new.      *)
(*                                                                         *)
(* Time is counted in ticks of 1/120 s.  Lengths are in pixels.            *)
(***************************************************************************)
EXTENDS Integers, Sequences, FiniteSets, TLC

\* ------------------------------------------------------------------------
\* Bounds of the model
\* ------------------------------------------------------------------------
\* frames updated in one behaviour
MaxFrames == 2
\* the clock saturates this many ticks after a frame start
MaxElapsed == 2
\* submissions the GPU may still hold when a frame is acquired
MaxLag == 1
\* materials in the configuration
MaxMaterials == 1
\* triangles one mesh yields
MaxTriangles == 1
\* most resources in one binding-set declaration
MaxBindings == 3
\* most mouse-motion events between two updates, and most updates
MaxMotions == 2
MaxUpdates == 2
\* most frames whose FPS sample is recorded
MaxSamples == 4
\* longest array of a [camera] field, and most [[spheres]] entries
MaxArrayLen == 3
MaxSpheres == 2
\* most 'v' lines and most 'vt' lines of an OBJ file
MaxObjLines == 2

\* ------------------------------------------------------------------------
\* Program constants
\* ------------------------------------------------------------------------
TicksPerSecond == 120
TileEdge == 8
DefaultFrameLimit == 60
Speed == 4

\* window sizes delivered by the windowing layer (0 = minimised)
SizeValues == {0, 8}
\* the inner size of the window when State::new runs
InitSize == << 9, 8 >>
\* values of gui_config.frame_limit the settings overlay can leave behind
FrameLimits == {0, 60, 120}
\* ShaderConfig::default(): the filters of the first and the second denoise
\* pass (0 spatial, 1 bilateral, 2 non-local means, 3 temporal, 4 adaptive
\* temporal, 5 none)
DefaultShaderConfig == [first_pass |-> 4, second_pass |-> 2]
\* contents of the CPU-side ShaderConfig the settings overlay can leave behind
ShaderConfigs == { DefaultShaderConfig, [first_pass |-> 3, second_pass |-> 4] }

FrameStages ==
    << "UPDATE_UNIFORMS", "RAY_TRACE_PASS", "DENOISE_PASS_0",
       "DENOISE_PASS_1", "PRESENT_PASS", "FRAME_PACE_WAIT" >>

VARIABLES
    running,           \* the event loop has not been told to exit
    pc,                \* position inside State::render: idle, pass1, pass2, present
    redraw_requested,  \* window.request_redraw() was called and not yet served
    elapsed,           \* Instant::now() - last_render_time, in ticks (saturating)
    last_resize,       \* extent carried by the last Resized event
    win,               \* projection aspect, size, surface configuration, surface
    color_buffer,      \* extent of the colour storage texture
    denoising_texture, \* extent of the temporal-denoise history texture
    camera,            \* Camera.position (one coordinate)
    camera_controller, \* CameraController.amount_forward
    camera_uniform,    \* CPU-side live CameraUniform
    shader_config,     \* CPU-side ShaderConfig
    frame_limit,       \* gui_config.frame_limit
    pending,           \* queue.write_buffer calls staged for the next submit
    gpuQueue,          \* submitted command buffers the GPU has not executed yet
    gpuBuf,            \* contents of the GPU buffers written per frame
    obs,               \* what the passes of the last executed submission read
    stages,            \* stages issued since the last UPDATE_UNIFORMS
    acquire,           \* result of the last surface.get_current_texture()
    last_rendered      \* live CameraUniform of the last rendered frame

frameVars ==
    << running, pc, redraw_requested, elapsed, last_resize, win, color_buffer,
       denoising_texture, camera, camera_controller, camera_uniform,
       shader_config, frame_limit, pending, gpuQueue, gpuBuf, obs, stages,
       acquire, last_rendered >>

VARIABLES
    userconfig,        \* the Config loaded from the configuration file
    files,             \* what the delegated loaders return for the configured paths
    scene              \* State::new: position, assembled arrays, created buffers

asmVars == << userconfig, files, scene >>

VARIABLES
    toml,              \* the text of the configuration file, section by section
    startup            \* setup_gpu: position, GPU resources created, Config::new result

cfgVars == << toml, startup >>

VARIABLES
    descriptor,        \* a BindGroupDescriptor: bindings, layout, generated bind group
    mouse,             \* mouse_pressed, the controller's rotate_horizontal, the camera's yaw
    overlay,           \* the FPS history and what the overlay last drew from it
    keys,              \* the movement keys as delivered, the controller's amounts, the camera
    parse,             \* a configuration text with its arrays spelled out, and its Config
    loader             \* an OBJ file, the reader's position in it and what load_obj collected

libVars == << descriptor, mouse, overlay, keys, parse, loader >>

vars == << frameVars, asmVars, cfgVars, libVars >>

\* ------------------------------------------------------------------------
\* Helpers
\* ------------------------------------------------------------------------
RECURSIVE GCD(_, _)
GCD(a, b) == IF b = 0 THEN a ELSE GCD(b, a % b)

Min(a, b) == IF a < b THEN a ELSE b

\* width as f32 / height as f32, kept as a reduced fraction
Aspect(w, h) == << w \div GCD(w, h), h \div GCD(w, h) >>

\* (extent + 7) / 8
Workgroups(cfg) ==
    << (cfg[1] + (TileEdge - 1)) \div TileEdge,
       (cfg[2] + (TileEdge - 1)) \div TileEdge, 1 >>

\* ------------------------------------------------------------------------
\* State::resize
\* ------------------------------------------------------------------------
resize_any_positive(w, new_size) ==
    IF new_size[1] > 0 \/ new_size[2] > 0
    THEN [ projection |-> IF new_size[2] > 0
                          THEN Aspect(new_size[1], new_size[2])
                          ELSE <<1, 0>>,
           size       |-> new_size,
           config     |-> new_size,
           surface    |-> [extent |-> new_size, status |-> "ok"] ]
    ELSE w

resize(w, new_size) ==
    IF new_size[1] > 0 /\ new_size[2] > 0
    THEN [ projection |-> Aspect(new_size[1], new_size[2]),
           size       |-> new_size,
           config     |-> new_size,
           surface    |-> [extent |-> new_size, status |-> "ok"] ]
    ELSE w

\* ------------------------------------------------------------------------
\* wgpu queue: write_buffer stages a write, submit sends the staged writes
\* ahead of the command buffer, the GPU executes submissions in FIFO order
\* ------------------------------------------------------------------------
write_buffer(p, buffer, data) == Append(p, << buffer, data >>)

submit(q, p, cmds) == Append(q, [writes |-> p, cmds |-> cmds])

RECURSIVE ApplyWrites(_, _)
ApplyWrites(b, ws) ==
    IF ws = << >> THEN b
    ELSE ApplyWrites([b EXCEPT ![Head(ws)[1]] = Head(ws)[2]], Tail(ws))

\* what a recorded pass c reads when it runs against the buffers b
Observe(b, c) ==
    [ cmd       |-> c,
      pass      |-> b["denoising_pass_buffer"],
      reference |-> b["denoising_camera_buffer"],
      live      |-> b["camera_buffer"],
      config    |-> b["shader_config_buffer"] ]

RunCmds(b, cs) == [i \in DOMAIN cs |-> Observe(b, cs[i])]

\* denoising.wgsl: the filter a denoise dispatch applies is the one the
\* shader config names for the pass index the dispatch reads
SelectedFilter(o) == IF o.pass = 0 THEN o.config.first_pass ELSE o.config.second_pass

\* denoising.wgsl: the temporal and the adaptive temporal filter read the
\* denoise-reference camera uniform
TemporalFilters == {3, 4}

ReadsReference(o) ==
    o.cmd.site \in {"den1", "den2"} /\ SelectedFilter(o) \in TemporalFilters

\* a recorded pass: where it was recorded, its workgroup counts, and for
\* reference the live uniform of its frame, that of the frame rendered
\* before, and the ShaderConfig the program holds while it records the pass
Cmd(site) ==
    [ site     |-> site,
      groups   |-> Workgroups(win.config),
      frame    |-> camera_uniform,
      prev     |-> last_rendered,
      settings |-> shader_config ]

\* ------------------------------------------------------------------------
\* CameraController::update_camera, CameraUniform::update_view_proj / update_frame
\* ------------------------------------------------------------------------
update_camera(pos, amount_forward, dt) == pos + amount_forward * Speed * dt

update_view_proj(cu, pos) == [cu EXCEPT !.view_position = pos]

update_frame(cu) == [cu EXCEPT !.frame = cu.frame + 1]

\* CameraController::process_keyboard for the forward key
process_keyboard(pressed) == IF pressed THEN 1 ELSE 0

\* ------------------------------------------------------------------------
\* State::update: the writes it stages
\* ------------------------------------------------------------------------
UpdateWrites_with_reference(p, cu, sc) ==
    write_buffer(
        write_buffer(
            write_buffer(p, "camera_buffer", cu),
            "shader_config_buffer", sc),
        "denoising_camera_buffer", cu)

UpdateWrites_without_config(p, cu, sc) == write_buffer(p, "camera_buffer", cu)

UpdateWrites(p, cu, sc) ==
    write_buffer(
        write_buffer(p, "camera_buffer", cu),
        "shader_config_buffer", sc)

\* ------------------------------------------------------------------------
\* State::render: the writes staged before each submission
\* ------------------------------------------------------------------------
Pass1Writes_and_vertex_buffer(p) ==
    write_buffer(write_buffer(p, "denoising_pass_buffer", 0), "Vertex Buffer", 0)

Pass1Writes(p) == write_buffer(p, "denoising_pass_buffer", 0)

Pass2Writes_missing(p) == p

Pass2Writes_with_reference(p) ==
    write_buffer(write_buffer(p, "denoising_pass_buffer", 1),
                 "denoising_camera_buffer", camera_uniform)

Pass2Writes(p) == write_buffer(p, "denoising_pass_buffer", 1)

PresentWrites_missing(p, cu) == p

PresentWrites(p, cu) == write_buffer(p, "denoising_camera_buffer", cu)

\* the order of the submissions of one render call
RenderNext_skip_second(p) ==
    CASE p = "pass1"   -> "present"
      [] p = "pass2"   -> "present"
      [] p = "present" -> "idle"

RenderNext(p) ==
    CASE p = "pass1"   -> "pass2"
      [] p = "pass2"   -> "present"
      [] p = "present" -> "idle"

\* surface.get_current_texture()
AcquireResults(surface) ==
    CASE surface.status = "lost"     -> {"Lost"}
      [] surface.status = "outdated" -> {"Outdated"}
      [] OTHER                       -> {"Ok", "Timeout", "OutOfMemory"}

\* run: the match on the result of state.render()
on_render_result_no_reconfigure(res, w) ==
    CASE res = "OutOfMemory" -> [win |-> w, running |-> FALSE]
      [] OTHER               -> [win |-> w, running |-> TRUE]

on_render_result(res, w) ==
    CASE res \in {"Lost", "Outdated"} -> [win |-> resize(w, w.size), running |-> TRUE]
      [] res = "OutOfMemory"          -> [win |-> w, running |-> FALSE]
      [] OTHER                        -> [win |-> w, running |-> TRUE]

\* run: frame pacing in the AboutToWait handler
FrameInterval(limit) == TicksPerSecond \div limit

PaceSleep_integer_interval(limit, frame_time) ==
    IF limit # 0 /\ frame_time < (1 \div limit) * TicksPerSecond
    THEN (1 \div limit) * TicksPerSecond - frame_time
    ELSE 0

PaceSleep(limit, frame_time) ==
    IF limit # 0 /\ frame_time < FrameInterval(limit)
    THEN FrameInterval(limit) - frame_time
    ELSE 0

\* ------------------------------------------------------------------------
\* Initial state: State::new has returned, the event loop starts
\* ------------------------------------------------------------------------
InitUniform == [frame |-> 0, view_position |-> 0]

NoUniform == [frame |-> -1, view_position |-> 0]

FrameInit ==
    /\ running = TRUE
    /\ pc = "idle"
    /\ redraw_requested = FALSE
    /\ elapsed = 0
    /\ last_resize = << >>
    /\ win = [ projection |-> Aspect(InitSize[1], InitSize[2]),
               size       |-> InitSize,
               config     |-> InitSize,
               surface    |-> [extent |-> InitSize, status |-> "ok"] ]
    /\ color_buffer = InitSize
    /\ denoising_texture = InitSize
    /\ camera = 0
    /\ camera_controller = 0
    /\ camera_uniform = InitUniform
    /\ shader_config = DefaultShaderConfig
    /\ frame_limit = DefaultFrameLimit
    /\ pending = << >>
    /\ gpuQueue = << >>
    /\ gpuBuf = [ b \in {"camera_buffer", "shader_config_buffer",
                         "denoising_pass_buffer", "denoising_camera_buffer"} |->
                    CASE b = "camera_buffer"           -> InitUniform
                      [] b = "denoising_camera_buffer" -> InitUniform
                      [] b = "shader_config_buffer"    -> DefaultShaderConfig
                      [] OTHER                         -> 0 ]
    /\ obs = << >>
    /\ stages = << >>
    /\ acquire = "none"
    /\ last_rendered = NoUniform

\* ------------------------------------------------------------------------
\* Event loop of run
\* ------------------------------------------------------------------------
\* WindowEvent::RedrawRequested: state.update(dt), then state.render() up to
\* the acquisition of the surface image, then the match on its result
RedrawRequested ==
    /\ running /\ pc = "idle" /\ redraw_requested
    /\ camera_uniform.frame < MaxFrames
    /\ Len(gpuQueue) <= MaxLag
    /\ LET dt  == elapsed
           pos == update_camera(camera, camera_controller, dt)
           cu  == update_frame(update_view_proj(camera_uniform, pos))
       IN  /\ camera' = pos
           /\ camera_uniform' = cu
           /\ pending' = UpdateWrites(pending, cu, shader_config)
    /\ elapsed' = 0
    /\ redraw_requested' = FALSE
    /\ stages' = << "UPDATE_UNIFORMS" >>
    /\ \E res \in AcquireResults(win.surface) :
          /\ acquire' = res
          /\ IF res = "Ok"
             THEN /\ pc' = "pass1"
                  /\ UNCHANGED << win, running >>
             ELSE /\ pc' = "idle"
                  /\ win' = on_render_result(res, win).win
                  /\ running' = on_render_result(res, win).running
    /\ UNCHANGED << asmVars, cfgVars, libVars >>
    /\ UNCHANGED << color_buffer, denoising_texture, camera_controller,
                    shader_config, frame_limit, gpuQueue, gpuBuf, obs,
                    last_resize, last_rendered >>

\* State::render: ray-tracing pass and first denoising pass, first submission
RenderPass1 ==
    /\ pc = "pass1"
    /\ gpuQueue' = submit(gpuQueue, Pass1Writes(pending),
                          << Cmd("ray"), Cmd("den1") >>)
    /\ pending' = << >>
    /\ stages' = stages \o << "RAY_TRACE_PASS", "DENOISE_PASS_0" >>
    /\ pc' = RenderNext(pc)
    /\ UNCHANGED << asmVars, cfgVars, libVars >>
    /\ UNCHANGED << running, redraw_requested, elapsed, last_resize, win,
                    color_buffer, denoising_texture, camera, camera_controller,
                    camera_uniform, shader_config, frame_limit, gpuBuf, obs,
                    acquire, last_rendered >>

\* State::render: second denoising pass, second submission
RenderPass2 ==
    /\ pc = "pass2"
    /\ gpuQueue' = submit(gpuQueue, Pass2Writes(pending), << Cmd("den2") >>)
    /\ pending' = << >>
    /\ stages' = Append(stages, "DENOISE_PASS_1")
    /\ pc' = RenderNext(pc)
    /\ UNCHANGED << asmVars, cfgVars, libVars >>
    /\ UNCHANGED << running, redraw_requested, elapsed, last_resize, win,
                    color_buffer, denoising_texture, camera, camera_controller,
                    camera_uniform, shader_config, frame_limit, gpuBuf, obs,
                    acquire, last_rendered >>

\* State::render: screen pass, the write of the denoise-reference camera,
\* the overlay (which edits ShaderConfig and the frame limit), third
\* submission and present
RenderPresent ==
    /\ pc = "present"
    /\ gpuQueue' = submit(gpuQueue, PresentWrites(pending, camera_uniform),
                          << Cmd("present") >>)
    /\ pending' = << >>
    /\ \E sc \in ShaderConfigs : shader_config' = sc
    /\ \E fl \in FrameLimits : frame_limit' = fl
    /\ stages' = Append(stages, "PRESENT_PASS")
    /\ last_rendered' = camera_uniform
    /\ pc' = RenderNext(pc)
    /\ UNCHANGED << asmVars, cfgVars, libVars >>
    /\ UNCHANGED << running, redraw_requested, elapsed, last_resize, win,
                    color_buffer, denoising_texture, camera, camera_controller,
                    camera_uniform, gpuBuf, obs, acquire >>

\* Event::AboutToWait: frame pacing, then window.request_redraw()
AboutToWait ==
    /\ running /\ pc = "idle" /\ ~redraw_requested
    /\ LET frame_time == elapsed
           sleep      == PaceSleep(frame_limit, frame_time)
       IN  elapsed' = Min(elapsed + sleep, MaxElapsed)
    /\ redraw_requested' = TRUE
    /\ stages' = Append(stages, "FRAME_PACE_WAIT")
    /\ UNCHANGED << asmVars, cfgVars, libVars >>
    /\ UNCHANGED << running, pc, win, color_buffer, denoising_texture, camera,
                    camera_controller, camera_uniform, shader_config,
                    frame_limit, pending, gpuQueue, gpuBuf, obs, acquire,
                    last_resize, last_rendered >>

\* WindowEvent::Resized: state.resize(physical_size)
Resized(w, h) ==
    /\ running /\ pc = "idle"
    /\ win' = resize(win, << w, h >>)
    /\ last_resize' = << w, h >>
    /\ UNCHANGED << asmVars, cfgVars, libVars >>
    /\ UNCHANGED << running, pc, redraw_requested, elapsed, color_buffer,
                    denoising_texture, camera, camera_controller,
                    camera_uniform, shader_config, frame_limit, pending,
                    gpuQueue, gpuBuf, obs, stages, acquire, last_rendered >>

\* WindowEvent::KeyboardInput for the forward key, through State::input: the
\* overlay sees the event first and may consume it
KeyboardInput(pressed, consumed) ==
    /\ running /\ pc = "idle"
    /\ camera_controller' = IF consumed THEN camera_controller
                            ELSE process_keyboard(pressed)
    /\ UNCHANGED << asmVars, cfgVars, libVars >>
    /\ UNCHANGED << running, pc, redraw_requested, elapsed, last_resize, win,
                    color_buffer, denoising_texture, camera, camera_uniform,
                    shader_config, frame_limit, pending, gpuQueue, gpuBuf, obs,
                    stages, acquire, last_rendered >>

\* WindowEvent::CloseRequested, or Escape pressed: elwt.exit()
CloseRequested ==
    /\ running /\ pc = "idle"
    /\ running' = FALSE
    /\ UNCHANGED << asmVars, cfgVars, libVars >>
    /\ UNCHANGED << pc, redraw_requested, elapsed, last_resize, win,
                    color_buffer, denoising_texture, camera, camera_controller,
                    camera_uniform, shader_config, frame_limit, pending,
                    gpuQueue, gpuBuf, obs, stages, acquire, last_rendered >>

\* ------------------------------------------------------------------------
\* Environment: the presentation surface, the GPU, the clock
\* ------------------------------------------------------------------------
SurfaceInvalidated(status) ==
    /\ running /\ pc = "idle" /\ win.surface.status = "ok"
    /\ win' = [win EXCEPT !.surface.status = status]
    /\ UNCHANGED << asmVars, cfgVars, libVars >>
    /\ UNCHANGED << running, pc, redraw_requested, elapsed, last_resize,
                    color_buffer, denoising_texture, camera, camera_controller,
                    camera_uniform, shader_config, frame_limit, pending,
                    gpuQueue, gpuBuf, obs, stages, acquire, last_rendered >>

GpuExecute ==
    /\ gpuQueue # << >>
    /\ LET sub == Head(gpuQueue)
           b   == ApplyWrites(gpuBuf, sub.writes)
       IN  /\ gpuBuf' = b
           /\ obs' = RunCmds(b, sub.cmds)
    /\ gpuQueue' = Tail(gpuQueue)
    /\ UNCHANGED << asmVars, cfgVars, libVars >>
    /\ UNCHANGED << running, pc, redraw_requested, elapsed, last_resize, win,
                    color_buffer, denoising_texture, camera, camera_controller,
                    camera_uniform, shader_config, frame_limit, pending,
                    stages, acquire, last_rendered >>

Tick ==
    /\ running
    /\ elapsed < MaxElapsed
    /\ elapsed' = elapsed + 1
    /\ UNCHANGED << asmVars, cfgVars, libVars >>
    /\ UNCHANGED << running, pc, redraw_requested, last_resize, win,
                    color_buffer, denoising_texture, camera, camera_controller,
                    camera_uniform, shader_config, frame_limit, pending,
                    gpuQueue, gpuBuf, obs, stages, acquire, last_rendered >>

LoopNext ==
    \/ RedrawRequested
    \/ RenderPass1
    \/ RenderPass2
    \/ RenderPresent
    \/ AboutToWait
    \/ CloseRequested
    \/ \E status \in {"lost", "outdated"} : SurfaceInvalidated(status)
    \/ GpuExecute
    \/ Tick

FrameNext ==
    \/ LoopNext
    \/ \E pressed \in BOOLEAN, consumed \in BOOLEAN : KeyboardInput(pressed, consumed)

WindowNext ==
    \/ LoopNext
    \/ \E w \in SizeValues, h \in SizeValues : Resized(w, h)

\* ------------------------------------------------------------------------
\* Scene assembly (State::new and its helpers).  Materials are counted, a
\* texture image is a label of its origin, a sphere is its material id, a
\* triangle is its material id and its three texture ids.
\* ------------------------------------------------------------------------
None == << >>

Some(x) == << x >>

Option(S) == {None} \cup {Some(x) : x \in S}

SeqUpTo(S, n) == UNION {[1..k -> S] : k \in 0..n}

RECURSIVE Repeat(_, _)
Repeat(x, n) == IF n = 0 THEN << >> ELSE Append(Repeat(x, n - 1), x)

\* material ids a configuration may name
MaterialIds == 0..1

\* texture presence on a glTF material: base colour, roughness, normal, emissive
GltfTextureSets == { {}, {"base_color"}, {"roughness", "normal"} }

GltfModels ==
    [triangles : Option(0..MaxTriangles), textures : GltfTextureSets]

\* Triangle::empty(); model is the glTF model a triangle came from (from 1),
\* 0 for any other origin
EmptyTriangle ==
    [material_id |-> 0, texture_ids |-> << 0, 0, 0 >>, model |-> 0, empty |-> TRUE]

NewTriangle(material_id, texture_ids, model) ==
    [material_id |-> material_id, texture_ids |-> texture_ids, model |-> model,
     empty |-> FALSE]

\* an image of the texture array: the glTF model it came from (0: none) and
\* what it is
Image(model, kind) == [model |-> model, kind |-> kind]

Configs ==
    [ materials : Option(0..MaxMaterials),
      textures : Option(0..1),
      spheres : Option(SeqUpTo(MaterialIds, 1)),
      obj_path : Option({"", "mesh.obj"}),
      obj_material_id : Option(MaterialIds),
      gltf_path : Option({"", "scene.gltf"}),
      background_path : Option({"", "sky.hdr"}) ]

Files ==
    [ image : {"Ok", "Err"},
      obj : Option(0..MaxTriangles),
      gltf : Option(SeqUpTo(GltfModels, 1)),
      hdr : {"Ok", "Err"} ]

\* a loader is only asked for a path that names a file
Relevant(cfg, f) ==
    /\ (cfg.textures \in {None, Some(0)}) => f.image = "Ok"
    /\ (cfg.obj_path # Some("mesh.obj")) => (f.obj = Some(0) /\ cfg.obj_material_id = None)
    /\ (cfg.gltf_path # Some("scene.gltf")) => f.gltf = Some(<< >>)
    /\ (cfg.background_path # Some("sky.hdr")) => f.hdr = "Ok"

NewScene ==
    [ pc |-> "config", materials |-> 0, textures |-> << >>, triangles |-> << >>,
      triangles_uniform |-> 0, spheres |-> << >>, bvh_uniform |-> 0,
      bvh_prim_indices |-> 0, bvh_printed |-> "", num_textureslots |-> 0,
      buffers |-> << >> ]

Exit(s) == [s EXCEPT !.pc = "exit"]

create_new_buffer(s, label, len) ==
    [s EXCEPT !.buffers = Append(s.buffers, << label, len >>)]

add_materials_from_config(s, user_materials) ==
    IF user_materials # None
    THEN [s EXCEPT !.materials = s.materials + user_materials[1]]
    ELSE s

add_textures_from_config(s, user_texturesets, image) ==
    IF user_texturesets # None
    THEN IF user_texturesets[1] > 0 /\ image = "Err"
         THEN Exit(s)
         ELSE [s EXCEPT !.textures =
                   s.textures \o Repeat(Image(0, "config"), user_texturesets[1])]
    ELSE s

load_obj_file(s, obj_path, obj_material_id, obj) ==
    IF obj_path = None \/ obj_path = Some("")
    THEN s
    ELSE IF obj = None
         THEN Exit(s)
         ELSE [s EXCEPT !.triangles =
                   s.triangles \o Repeat(NewTriangle(obj_material_id,
                                                     << -1, -1, -1 >>, 0), obj[1])]

GltfTriangles(model, material_index, ids, k) ==
    IF model.triangles = None THEN << >>
    ELSE Repeat(NewTriangle(material_index, ids, k), model.triangles[1])

\* the images a model's material pushes, in the order of the pushes
GltfImages(model, k) ==
    (IF "base_color" \in model.textures THEN << Image(k, "base_color") >> ELSE << >>)
    \o (IF "roughness" \in model.textures THEN << Image(k, "roughness") >> ELSE << >>)
    \o (IF "normal" \in model.textures THEN << Image(k, "normal") >> ELSE << >>)
    \o (IF "emissive" \in model.textures THEN << Image(k, "emissive") >> ELSE << >>)

\* the ids of a model's triangles (diffuse, roughness, normal), with
\* texture_index counting the images pushed so far, this model's included
texture_ids_emissive_uncounted(has, texture_index) ==
    LET B == "base_color" \in has
        R == "roughness" \in has
        N == "normal" \in has
    IN  CASE B /\ R /\ N -> << texture_index - 3, texture_index - 2, texture_index - 1 >>
          [] B /\ R -> << texture_index - 2, texture_index - 1, -1 >>
          [] B /\ N -> << texture_index - 2, -1, texture_index - 1 >>
          [] R /\ N -> << -1, texture_index - 2, texture_index - 1 >>
          [] B -> << texture_index - 1, -1, -1 >>
          [] R -> << -1, texture_index - 1, -1 >>
          [] N -> << -1, -1, texture_index - 1 >>
          [] OTHER -> << -1, -1, -1 >>

texture_ids(has, texture_index) ==
    LET B == "base_color" \in has
        R == "roughness" \in has
        N == "normal" \in has
        E == "emissive" \in has
    IN  IF B /\ R /\ N /\ E
        THEN << texture_index - 4, texture_index - 3, texture_index - 2 >>
        ELSE IF B /\ R /\ N
        THEN << texture_index - 3, texture_index - 2, texture_index - 1 >>
        ELSE IF B /\ R /\ E
        THEN << texture_index - 3, texture_index - 2, -1 >>
        ELSE IF B /\ N /\ E
        THEN << texture_index - 3, -1, texture_index - 2 >>
        ELSE IF R /\ N /\ E
        THEN << -1, texture_index - 3, texture_index - 2 >>
        ELSE IF B /\ R
        THEN << texture_index - 2, texture_index - 1, -1 >>
        ELSE IF B /\ N
        THEN << texture_index - 2, -1, texture_index - 1 >>
        ELSE IF B /\ E
        THEN << texture_index - 2, -1, -1 >>
        ELSE IF R /\ N
        THEN << -1, texture_index - 2, texture_index - 1 >>
        ELSE IF R /\ E
        THEN << -1, texture_index - 2, -1 >>
        ELSE IF N /\ E
        THEN << -1, -1, texture_index - 2 >>
        ELSE IF B
        THEN << texture_index - 1, -1, -1 >>
        ELSE IF R
        THEN << -1, texture_index - 1, -1 >>
        ELSE IF N
        THEN << -1, -1, texture_index - 1 >>
        ELSE << -1, -1, -1 >>

\* the triangles, the number of materials and the images of the models
\* from the k-th on
RECURSIVE load_gltf(_, _, _, _)
load_gltf(models, material_index, texture_count, k) ==
    IF k > Len(models)
    THEN [triangles |-> << >>, materials |-> 0, textures |-> << >>]
    ELSE LET images == GltfImages(models[k], k)
             texture_index == texture_count + Len(images)
             ids == texture_ids(models[k].textures, texture_index)
             rest == load_gltf(models, material_index + 1, texture_index, k + 1)
         IN  [triangles |-> GltfTriangles(models[k], material_index, ids, k)
                                \o rest.triangles,
              materials |-> 1 + rest.materials,
              textures |-> images \o rest.textures]

load_gltf_file(s, gltf_path, gltf) ==
    IF s.pc = "exit" \/ gltf_path = None \/ gltf_path = Some("")
    THEN s
    ELSE IF gltf = None
         THEN Exit(s)
         ELSE LET loaded == load_gltf(gltf[1], s.materials, Len(s.textures), 1)
              IN  [s EXCEPT !.triangles = s.triangles \o loaded.triangles,
                            !.materials = s.materials + loaded.materials,
                            !.textures = s.textures \o loaded.textures]

setup_tris_objects(s, cfg, f) ==
    LET obj_material_id ==
            IF cfg.obj_material_id # None THEN cfg.obj_material_id[1] ELSE 0
        are_paths_empty == cfg.obj_path = None /\ cfg.gltf_path = None
        loaded == load_gltf_file(load_obj_file(s, cfg.obj_path, obj_material_id, f.obj),
                                 cfg.gltf_path, f.gltf)
    IN  IF are_paths_empty
        THEN [s EXCEPT !.triangles = << EmptyTriangle >>, !.triangles_uniform = 1]
        ELSE [loaded EXCEPT !.triangles_uniform = Len(loaded.triangles)]

\* what rtbvh's Builder::construct_binned_sah may return for n primitives:
\* an error (None) or node and primitive-index arrays, on which
\* Bvh::validate(n) answers true or false
BuilderResults(n) ==
    IF n = 0
    THEN {None} \cup {Some([nodes |-> 0, prim_indices |-> 0, validate |-> v]) :
                          v \in BOOLEAN}
    ELSE {Some([nodes |-> k, prim_indices |-> n, validate |-> v]) :
             k \in 1..(2 * n), v \in BOOLEAN}

\* the answer of validate is printed and the raw arrays are returned either way
setup_bvh(s, built) ==
    IF built = None
    THEN Exit(s)
    ELSE [s EXCEPT !.bvh_uniform = built[1].nodes,
                   !.bvh_prim_indices = built[1].prim_indices,
                   !.bvh_printed = IF built[1].validate THEN "BVH is valid"
                                   ELSE "BVH is invalid"]

setup_textures(s) ==
    IF Len(s.textures) = 0
    THEN [s EXCEPT !.textures = << Image(0, "new_rgb8"), Image(0, "new_rgb8") >>,
                   !.num_textureslots = 2]
    ELSE [s EXCEPT !.num_textureslots = Len(s.textures)]

setup_hdri(s, background_path, hdr) ==
    IF background_path = None \/ background_path = Some("")
    THEN s
    ELSE IF hdr = "Err" THEN Exit(s) ELSE s

Goto(s, pc_next) == IF s.pc = "exit" THEN s ELSE [s EXCEPT !.pc = pc_next]

AssemblyInit ==
    /\ userconfig \in Configs
    /\ files \in Files
    /\ Relevant(userconfig, files)
    /\ scene = NewScene

\* state.rs 135-139
LoadMaterialsAndTextures ==
    /\ scene.pc = "config"
    /\ scene' = Goto(add_textures_from_config(
                         add_materials_from_config(scene, userconfig.materials),
                         userconfig.textures, files.image),
                     "triangles")
    /\ UNCHANGED << userconfig, files, frameVars, cfgVars, libVars >>

\* state.rs 143-149
LoadTriangles ==
    /\ scene.pc = "triangles"
    /\ LET s == setup_tris_objects(scene, userconfig, files)
       IN  scene' = IF s.pc = "exit" THEN s
                    ELSE Goto(create_new_buffer(s, "Vertex Buffer", s.triangles_uniform),
                              "spheres")
    /\ UNCHANGED << userconfig, files, frameVars, cfgVars, libVars >>

\* state.rs 153-166
LoadSpheres ==
    /\ scene.pc = "spheres"
    /\ LET spheres == IF userconfig.spheres # None THEN userconfig.spheres[1] ELSE << >>
       IN  scene' = Goto(create_new_buffer([scene EXCEPT !.spheres = spheres],
                                           "Sphere Buffer", Len(spheres)),
                         "bvh")
    /\ UNCHANGED << userconfig, files, frameVars, cfgVars, libVars >>

\* state.rs 196-204
SetupBvh ==
    /\ scene.pc = "bvh"
    /\ \E built \in BuilderResults(Len(scene.triangles)) :
          LET s == setup_bvh(scene, built)
          IN  scene' = IF s.pc = "exit" THEN s
                       ELSE Goto(create_new_buffer(
                                     create_new_buffer(s, "BVH Buffer", s.bvh_uniform),
                                     "BVH Prim Indices Buffer", s.bvh_prim_indices),
                                 "textures")
    /\ UNCHANGED << userconfig, files, frameVars, cfgVars, libVars >>

\* state.rs 232-237
SetupTexturesAndMaterials ==
    /\ scene.pc = "textures"
    /\ LET s == setup_hdri(setup_textures(scene), userconfig.background_path, files.hdr)
       IN  scene' = IF s.pc = "exit" THEN s
                    ELSE Goto(create_new_buffer(
                                  create_new_buffer(s, "Textures", s.num_textureslots),
                                  "Material Buffer", s.materials),
                              "done")
    /\ UNCHANGED << userconfig, files, frameVars, cfgVars, libVars >>

AssemblyNext ==
    \/ LoadMaterialsAndTextures
    \/ LoadTriangles
    \/ LoadSpheres
    \/ SetupBvh
    \/ SetupTexturesAndMaterials

\* ------------------------------------------------------------------------
\* Loading the configuration (Config::from_str) inside setup_gpu.  A field
\* of the [camera] table is ok, missing or of the wrong type; another
\* section is ok, absent or holds a missing or wrongly typed field.  An ok
\* array has at least the length that is read from it; the arrays are
\* spelled out in the section on Config::from_str further down.
\* ------------------------------------------------------------------------
FieldStates == {"ok", "missing", "invalid"}

SectionStates == {"ok", "absent", "invalid"}

Tomls ==
    { t \in [ camera : {"present", "absent"},
              position : FieldStates, rotation : FieldStates,
              near_far : FieldStates, fov : FieldStates,
              materials : SectionStates, textures : SectionStates,
              background : SectionStates, spheres : SectionStates,
              model_paths : {"ok", "absent"} ] :
          t.camera = "absent" =>
              /\ t.position = "missing" /\ t.rotation = "missing"
              /\ t.near_far = "missing" /\ t.fov = "missing" }

Ok(value) == [ok |-> TRUE, value |-> value, errors |-> << >>]

\* Err(String): the one message the Result carries
Err(error) == [ok |-> FALSE, value |-> None, errors |-> << error >>]

load_materials_config_required(value) ==
    CASE value = "absent" -> Err("Missing materials")
      [] value = "invalid" -> Err("Missing color")
      [] OTHER -> Ok(Some("materials"))

load_materials_config(value) ==
    CASE value = "absent" -> Ok(None)
      [] value = "invalid" -> Err("Missing color")
      [] OTHER -> Ok(Some("materials"))

load_textures_config(value) ==
    CASE value = "absent" -> Ok(None)
      [] value = "invalid" -> Err("Missing texture paths")
      [] OTHER -> Ok(Some("textures"))

load_background_config(value) ==
    CASE value = "absent" -> Ok(None)
      [] value = "invalid" -> Err("Missing or invalid fields in background config")
      [] OTHER -> Ok(Some("background"))

load_spheres_config(value) ==
    CASE value = "absent" -> Ok(None)
      [] value = "invalid" -> Err("Missing radius")
      [] OTHER -> Ok(Some("spheres"))

\* ModelPaths::default() has no path
load_3d_models_config(value) ==
    IF value = "absent"
    THEN Ok([gltf_path |-> None, obj_path |-> None, obj_material_id |-> None])
    ELSE Ok([gltf_path |-> Some("scene.gltf"), obj_path |-> Some("mesh.obj"),
             obj_material_id |-> Some(0)])

\* every ? returns the first error met; a textures error is printed and
\* the field left None
from_str(t) ==
    LET materials == load_materials_config(t.materials)
        textures == load_textures_config(t.textures)
        background == load_background_config(t.background)
        spheres == load_spheres_config(t.spheres)
        model_paths == load_3d_models_config(t.model_paths)
    IN  IF t.camera = "absent" THEN Err("Missing camera section")
        ELSE IF t.position = "missing" THEN Err("Missing camera position")
        ELSE IF t.position = "invalid" THEN Err("Expected array")
        ELSE IF t.rotation = "missing" THEN Err("Missing camera rotation")
        ELSE IF t.rotation = "invalid" THEN Err("Expected array")
        ELSE IF t.near_far = "invalid" THEN Err("Expected array")
        ELSE IF t.fov = "missing" THEN Err("Missing camera fov")
        ELSE IF t.fov = "invalid" THEN Err("Expected float for camera fov")
        ELSE IF ~materials.ok THEN materials
        ELSE IF ~background.ok THEN background
        ELSE IF ~spheres.ok THEN spheres
        ELSE Ok(Some([ camera_near_far |->
                           IF t.near_far = "missing" THEN "default" ELSE "given",
                       materials |-> materials.value,
                       textures |-> IF textures.ok THEN textures.value ELSE None,
                       background |-> background.value,
                       spheres |-> spheres.value,
                       model_paths |-> model_paths.value ]))

NewStartup == [pc |-> "instance", resources |-> << >>, userconfig |-> None]

\* gpu.rs 8-28
CreateSurface ==
    /\ startup.pc = "instance"
    /\ startup' = [startup EXCEPT !.pc = "adapter",
                                   !.resources = Append(@, "surface")]
    /\ UNCHANGED << toml, frameVars, asmVars, libVars >>

\* gpu.rs 30-55
RequestDevice ==
    /\ startup.pc = "adapter"
    /\ startup' = [startup EXCEPT !.pc = "configure",
                                   !.resources = Append(@, "device")]
    /\ UNCHANGED << toml, frameVars, asmVars, libVars >>

\* gpu.rs 57-71
ConfigureSurface ==
    /\ startup.pc = "configure"
    /\ startup' = [startup EXCEPT !.pc = "config",
                                   !.resources = Append(@, "surface configuration")]
    /\ UNCHANGED << toml, frameVars, asmVars, libVars >>

\* gpu.rs 73
LoadConfig ==
    /\ startup.pc = "config"
    /\ LET result == from_str(toml)
       IN  startup' = [startup EXCEPT !.pc = IF result.ok THEN "color" ELSE "rejected",
                                      !.userconfig = Some(result)]
    /\ UNCHANGED << toml, frameVars, asmVars, libVars >>

\* gpu.rs 75-96
CreateColorTexture ==
    /\ startup.pc = "color"
    /\ startup' = [startup EXCEPT !.pc = "done",
                                   !.resources = Append(@, "Storage Texture")]
    /\ UNCHANGED << toml, frameVars, asmVars, libVars >>

setup_gpu ==
    \/ CreateSurface
    \/ RequestDevice
    \/ ConfigureSurface
    \/ LoadConfig
    \/ CreateColorTexture

\* the configuration text a Config was loaded from, and setup_gpu done on it
TomlOf(cfg) ==
    [ camera |-> "present", position |-> "ok", rotation |-> "ok",
      near_far |-> "ok", fov |-> "ok",
      materials |-> IF cfg.materials = None THEN "absent" ELSE "ok",
      textures |-> IF cfg.textures = None THEN "absent" ELSE "ok",
      background |-> IF cfg.background_path = None THEN "absent" ELSE "ok",
      spheres |-> IF cfg.spheres = None THEN "absent" ELSE "ok",
      model_paths |-> IF cfg.obj_path = None /\ cfg.gltf_path = None
                          /\ cfg.obj_material_id = None
                      THEN "absent" ELSE "ok" ]

ConfigLoaded ==
    /\ toml = TomlOf(userconfig)
    /\ startup = [ pc |-> "done",
                   resources |-> << "surface", "device", "surface configuration",
                                    "Storage Texture" >>,
                   userconfig |-> Some(from_str(toml)) ]

\* ------------------------------------------------------------------------
\* BindGroupDescriptor (wgpu_utils/buffer.rs): one declaration of resources
\* from which the layout and the bind group are generated
\* ------------------------------------------------------------------------
BindingResourceTemplates ==
    {"BufferStorage", "BufferUniform", "StorageTexture", "TextureView", "Sampler"}

TextureViewDimensions == {"D2", "D2Array"}

Resources == {"a", "b"}

\* BufferType::new leaves view_dimension None; with_view_dimension panics
\* unless the template is a texture view or a storage texture
BufferTypes ==
    [ty : BindingResourceTemplates, view_dimension : {None}, resource : Resources]
    \cup [ty : {"TextureView", "StorageTexture"},
          view_dimension : {Some(d) : d \in TextureViewDimensions},
          resource : Resources]

\* BindGroupDescriptor::new
NewBindGroupDescriptor(bindings) ==
    [bindings |-> bindings, layout |-> None, bind_group |-> None, panicked |-> FALSE]

\* the entries of generate_bind_group: binding_index is raised first and
\* the entry gets binding_index - 1
BindGroupEntries_one_based(bindings) ==
    [i \in DOMAIN bindings |->
        [binding |-> i, resource |-> bindings[i].resource]]

BindGroupEntries(bindings) ==
    [i \in DOMAIN bindings |->
        [binding |-> i - 1, resource |-> bindings[i].resource]]

\* the wgpu::BindingType of a layout entry
BindingType(binding) ==
    CASE binding.ty = "BufferStorage" ->
             [ty |-> "Buffer", detail |-> "Storage { read_only: true }"]
      [] binding.ty = "BufferUniform" ->
             [ty |-> "Buffer", detail |-> "Uniform"]
      [] binding.ty = "StorageTexture" ->
             [ty |-> "StorageTexture", detail |-> binding.view_dimension[1]]
      [] binding.ty = "TextureView" ->
             [ty |-> "Texture", detail |-> binding.view_dimension[1]]
      [] binding.ty = "Sampler" ->
             [ty |-> "Sampler", detail |-> "Filtering"]

\* view_dimension.unwrap() on a texture declared with BufferType::new
LayoutPanics(bindings) ==
    \E i \in DOMAIN bindings :
        /\ bindings[i].ty \in {"StorageTexture", "TextureView"}
        /\ bindings[i].view_dimension = None

LayoutEntries(bindings) ==
    [i \in DOMAIN bindings |->
        [binding |-> i - 1, ty |-> BindingType(bindings[i])]]

generate_bind_group_layout(d) ==
    IF LayoutPanics(d.bindings)
    THEN [d EXCEPT !.panicked = TRUE]
    ELSE [d EXCEPT !.layout = Some(LayoutEntries(d.bindings))]

generate_bind_group(d) ==
    LET entries == BindGroupEntries(d.bindings)
        with_layout == generate_bind_group_layout(d)
    IN  IF with_layout.panicked THEN with_layout
        ELSE [with_layout EXCEPT !.bind_group = Some(entries)]

GenerateBindGroupLayout ==
    /\ ~descriptor.panicked /\ descriptor.bind_group = None
    /\ descriptor.layout = None
    /\ descriptor' = generate_bind_group_layout(descriptor)
    /\ UNCHANGED << mouse, overlay, keys, parse, loader, frameVars, asmVars, cfgVars >>

GenerateBindGroup ==
    /\ ~descriptor.panicked /\ descriptor.bind_group = None
    /\ descriptor' = generate_bind_group(descriptor)
    /\ UNCHANGED << mouse, overlay, keys, parse, loader, frameVars, asmVars, cfgVars >>

NextBindings == GenerateBindGroupLayout \/ GenerateBindGroup

\* ------------------------------------------------------------------------
\* Mouse look: DeviceEvent::MouseMotion, WindowEvent::MouseInput and the
\* rotation part of CameraController::update_camera.  The yaw is counted in
\* tenths of a radian per tick; motions lists the deltas forwarded to the
\* controller since the last update and updates counts the updates.
\* ------------------------------------------------------------------------
\* CameraController::new(4.0, 1.6): sensitivity, in tenths
Sensitivity == 16

MouseDeltas == {-1, 1, 2}

\* dt of an update, in ticks: 120, 60 and 40 frames per second
UpdateTicks == 1..3

NewMouse ==
    [mouse_pressed |-> FALSE, rotate_horizontal |-> 0, yaw |-> 0,
     motions |-> << >>, updates |-> 0]

\* camera.rs 152-155: the new delta replaces the stored one
process_mouse(rotate_horizontal, mouse_dx) == -mouse_dx

\* state.rs 673-680
MouseInput(pressed) ==
    /\ mouse.mouse_pressed # pressed
    /\ mouse' = [mouse EXCEPT !.mouse_pressed = pressed]
    /\ UNCHANGED << descriptor, overlay, keys, parse, loader, frameVars, asmVars, cfgVars >>

\* lib.rs 105-110
MouseMotion(mouse_dx) ==
    /\ Len(mouse.motions) < MaxMotions
    /\ mouse.mouse_pressed
    /\ mouse' = [mouse EXCEPT
                    !.rotate_horizontal = process_mouse(@, mouse_dx),
                    !.motions = Append(@, mouse_dx)]
    /\ UNCHANGED << descriptor, overlay, keys, parse, loader, frameVars, asmVars, cfgVars >>

\* camera.rs 176-196: the yaw quaternion turns the camera by
\* rotate_horizontal * sensitivity * dt, then the rotation values are reset
UpdateCamera(dt) ==
    /\ mouse.updates < MaxUpdates
    /\ mouse' = [mouse EXCEPT
                    !.yaw = @ + mouse.rotate_horizontal * Sensitivity * dt,
                    !.rotate_horizontal = 0,
                    !.motions = << >>,
                    !.updates = @ + 1]
    /\ UNCHANGED << descriptor, overlay, keys, parse, loader, frameVars, asmVars, cfgVars >>

NextMouse ==
    \/ \E pressed \in BOOLEAN : MouseInput(pressed)
    \/ \E mouse_dx \in MouseDeltas : MouseMotion(mouse_dx)
    \/ \E dt \in UpdateTicks : UpdateCamera(dt)

\* ------------------------------------------------------------------------
\* FPS history: State::update records 1 / dt at the front of a deque, the
\* overlay (gui) shows an average and plots the frame times.  Samples are in
\* frames per second, dt and the plotted frame times in ticks; the average
\* is kept as the sum of the samples it is taken over, i.e. in twentieths.
\* history lists the samples in the order they were recorded.
\* ------------------------------------------------------------------------
HistoryLen == 100
AverageLen == 20

RECURSIVE Sum(_)
Sum(seq) == IF seq = << >> THEN 0 ELSE Head(seq) + Sum(Tail(seq))

Reversed(seq) == [i \in 1..Len(seq) |-> seq[Len(seq) + 1 - i]]

Take(seq, n) == SubSeq(seq, 1, IF Len(seq) < n THEN Len(seq) ELSE n)

NewOverlay == [fps |-> << >>, history |-> << >>, pc |-> "update", shown |-> None]

\* state.rs 722-729 without the fill of the empty deque
update_fps_unfilled(fps, sample) == Take(<< sample >> \o fps, HistoryLen)

\* state.rs 722-729
update_fps(fps, sample) ==
    LET filled == IF fps = << >> THEN [i \in 1..HistoryLen |-> sample] ELSE fps
    IN  Take(<< sample >> \o filled, HistoryLen)

\* gui_structure.rs 66-68: avg_fps is fps.iter().rev().take(20).sum() / 20.0;
\* gui_structure.rs 79-80, 113-117: frame_times[i] for i in 0..100 panics
\* when the history is shorter
gui(fps) ==
    LET frame_times == Reversed(fps)
    IN  [ avg_fps  |-> Sum(Take(Reversed(fps), AverageLen)),
          panicked |-> Len(frame_times) < HistoryLen,
          plot     |-> IF Len(frame_times) < HistoryLen THEN << >>
                       ELSE [i \in 1..HistoryLen |-> TicksPerSecond \div frame_times[i]] ]

\* State::update(dt), the FPS part
UpdateFps(dt) ==
    /\ overlay.pc = "update"
    /\ Len(overlay.history) < MaxSamples
    /\ overlay' = [overlay EXCEPT
                      !.fps = update_fps(@, TicksPerSecond \div dt),
                      !.history = Append(@, TicksPerSecond \div dt),
                      !.pc = "draw"]
    /\ UNCHANGED << descriptor, mouse, keys, parse, loader, frameVars, asmVars, cfgVars >>

\* State::render: egui.draw runs gui on the history
DrawOverlay ==
    /\ overlay.pc = "draw"
    /\ overlay' = [overlay EXCEPT !.shown = Some(gui(overlay.fps)), !.pc = "update"]
    /\ UNCHANGED << descriptor, mouse, keys, parse, loader, frameVars, asmVars, cfgVars >>

NextOverlay ==
    \/ \E dt \in UpdateTicks : UpdateFps(dt)
    \/ DrawOverlay

\* ------------------------------------------------------------------------
\* Movement keys: WindowEvent::KeyboardInput through State::input, and the
\* translation part of CameraController::update_camera along the view
\* direction.  down is the state of each key as the windowing layer
\* delivered it.
\* ------------------------------------------------------------------------
MovementKeys == {"w", "s"}

\* EguiRenderer::handle_input: whether the overlay consumed the event
HandleInputResults == BOOLEAN

NewKeys ==
    [ down     |-> [k \in MovementKeys |-> FALSE],
      amount   |-> [k \in MovementKeys |-> 0],
      position |-> 0,
      updates  |-> 0 ]

\* State::input: the overlay sees the event first; the camera controller
\* gets it only when the overlay did not consume it
KeyEvent(key, pressed, consumed) ==
    /\ keys' = [keys EXCEPT
                   !.down[key] = pressed,
                   !.amount[key] = IF consumed THEN @ ELSE process_keyboard(pressed)]
    /\ UNCHANGED << descriptor, mouse, overlay, parse, loader, frameVars, asmVars, cfgVars >>

\* camera.rs 165-171: amount_forward is set by "w", amount_backward by "s"
UpdateKeys(dt) ==
    /\ keys.updates < MaxUpdates
    /\ keys' = [keys EXCEPT
                   !.position = update_camera(@, keys.amount["w"] - keys.amount["s"], dt),
                   !.updates = @ + 1]
    /\ UNCHANGED << descriptor, mouse, overlay, parse, loader, frameVars, asmVars, cfgVars >>

NextKeys ==
    \/ \E key \in MovementKeys, pressed \in BOOLEAN, consumed \in HandleInputResults :
          KeyEvent(key, pressed, consumed)
    \/ \E dt \in UpdateTicks : UpdateKeys(dt)

\* ------------------------------------------------------------------------
\* Config::from_str on the arrays of a configuration text: the three arrays
\* of the [camera] table and the [[spheres]] entries.  A TOML value is a
\* float or an integer, floats are counted in tenths; an array is a
\* sequence of values; an absent key is None.  A result is Ok, Err or a
\* panic of the thread.
\* ------------------------------------------------------------------------
Float(x) == [kind |-> "float", value |-> x]

Integer(x) == [kind |-> "integer", value |-> x]

Panic(message) == [ok |-> FALSE, value |-> None, errors |-> << >>, panic |-> message]

DefaultCamera ==
    [ position |-> Some(<< Float(1), Float(1), Float(1) >>),
      rotation |-> Some(<< Float(1), Float(1) >>),
      near_far |-> None ]

\* a [[spheres]] entry: empty, or with position and material_id, with or
\* without radius, with a texture_id of two or three integers
SphereEntries ==
    [ empty : {TRUE}, position : {None}, texture_id : {None}, radius : {None},
      material_id : {None} ] \cup
    [ empty : {FALSE},
      position : {Some(<< Float(1), Float(2), Float(3) >>)},
      texture_id : {Some(<< Integer(0), Integer(1) >>),
                    Some(<< Integer(0), Integer(1), Integer(2) >>),
                    Some(<< Integer(2), Integer(1), Integer(0) >>)},
      radius : {None, Some(Float(1))},
      material_id : {Some(Integer(0)), Some(Integer(1))} ]

\* every choice of the three camera arrays without spheres, and every
\* list of entries with the default camera
ParseInputs ==
    LET Arrays == {None} \cup {Some(a) : a \in SeqUpTo({Float(1), Integer(1)}, MaxArrayLen)}
    IN  [ camera : [position : Arrays, rotation : Arrays, near_far : Arrays],
          spheres : {None} ]
        \cup [ camera : {DefaultCamera},
               spheres : {Some(l) : l \in SeqUpTo(SphereEntries, MaxSpheres)} ]

\* config.rs 115-121
parse_array(array) ==
    IF \E i \in DOMAIN array : array[i].kind # "float"
    THEN Err("Expected float")
    ELSE Ok([i \in DOMAIN array |-> array[i].value])

\* parse_array(...)? followed by [vec[0], ..., vec[n - 1]]: indexing past
\* the end panics
ArrayOf(array, n) ==
    LET parsed == parse_array(array)
    IN  IF ~parsed.ok THEN parsed
        ELSE IF Len(parsed.value) < n THEN Panic("index out of bounds")
        ELSE Ok(SubSeq(parsed.value, 1, n))

\* config.rs 61-76: position, rotation, near_far in this order
camera_arrays(toml_camera) ==
    LET position == ArrayOf(toml_camera.position[1], 3)
        rotation == ArrayOf(toml_camera.rotation[1], 2)
        near_far == IF toml_camera.near_far = None THEN Ok(<< 1, 1000 >>)
                    ELSE ArrayOf(toml_camera.near_far[1], 2)
    IN  IF toml_camera.position = None THEN Err("Missing camera position")
        ELSE IF ~position.ok THEN position
        ELSE IF toml_camera.rotation = None THEN Err("Missing camera rotation")
        ELSE IF ~rotation.ok THEN rotation
        ELSE IF ~near_far.ok THEN near_far
        ELSE Ok([ camera_position |-> position.value,
                  camera_rotation |-> rotation.value,
                  camera_near_far |-> near_far.value ])

\* config.rs 253-283: the closure applied to one entry; the conversion to
\* Sphere needs a centre of four floats
sphere_of(v) ==
    IF v.empty THEN Ok(None)
    ELSE IF v.position = None THEN Err("Missing position")
    ELSE IF v.texture_id = None THEN Err("Missing texture_id")
    ELSE IF \E i \in DOMAIN v.texture_id[1] : v.texture_id[1][i].kind # "integer"
         THEN Err("Expected int")
    ELSE IF v.radius = None THEN Err("Missing radius")
    ELSE IF v.material_id = None THEN Err("Missing material_id")
    ELSE IF Len(v.texture_id[1]) < 3 THEN Panic("index out of bounds")
    ELSE IF Len(v.position[1]) # 3 THEN Err("Could not convert to Material")
    ELSE Ok(Some([ center |-> [i \in 1..3 |-> v.position[1][i].value] \o << 0 >>,
                   radius |-> << v.radius[1].value, 0, 0, 0 >>,
                   material_texture_id |->
                       << v.material_id[1].value >> \o
                       [i \in 1..3 |-> v.texture_id[1][i].value] ]))

\* config.rs 283: collect::<Result<Option<Vec<Sphere>>, String>>() stops at
\* the first Err with that Err and at the first None with Ok(None)
RECURSIVE collect(_, _)
collect(entries, acc) ==
    IF entries = << >> THEN Ok(Some(acc))
    ELSE LET item == sphere_of(Head(entries))
         IN  IF ~item.ok THEN item
             ELSE IF item.value = None THEN Ok(None)
             ELSE collect(Tail(entries), Append(acc, item.value[1]))

\* config.rs 246-296
load_spheres(value) ==
    IF value = None THEN Ok(None) ELSE collect(value[1], << >>)

\* config.rs 56-112, the arrays only
from_toml(text) ==
    LET arrays == camera_arrays(text.camera)
        spheres == load_spheres(text.spheres)
    IN  IF ~arrays.ok THEN arrays
        ELSE IF ~spheres.ok THEN spheres
        ELSE Ok([camera |-> arrays.value, spheres |-> spheres.value])

NoParse == [input |-> [camera |-> DefaultCamera, spheres |-> None], result |-> None]

ParseConfig ==
    /\ parse.result = None
    /\ parse' = [parse EXCEPT !.result = Some(from_toml(parse.input))]
    /\ UNCHANGED << descriptor, mouse, overlay, keys, loader, frameVars, asmVars, cfgVars >>

\* ------------------------------------------------------------------------
\* load_obj (models.rs).  An OBJ file is a sequence of lines; the i-th 'v'
\* line declares the position i, the i-th 'vt' line the texture coordinate
\* i, the 'vn' line the normal 1; an 'f' line has three corners a/b/c.
\* ------------------------------------------------------------------------
\* the files with up to MaxObjLines 'v' lines and 'vt' lines, one 'vn' line
\* and one face whose indices are those of declared lines
ObjFiles ==
    LET Line(kind, value) == [kind |-> kind, value |-> value, corners |-> << >>]
        Face(corners) == [kind |-> "f", value |-> 0, corners |-> corners]
        Corners(nv, nt) == [1..3 -> [a : 1..nv, b : 1..nt, c : {1}]]
    IN  UNION { { [i \in 1..nv |-> Line("v", i)] \o [i \in 1..nt |-> Line("vt", i)]
                      \o << Line("vn", 1), Face(corners) >> :
                  corners \in Corners(nv, nt) } :
                nv \in 1..MaxObjLines, nt \in 1..MaxObjLines }

NewObj(file) ==
    [ file |-> file, next |-> 1, vertices |-> << >>, texture_coords |-> << >>,
      normals |-> << >>, faces |-> << >>, result |-> None ]

\* models.rs 21-115: one pass of the loop over the lines.  Vec indexing
\* panics past the end; index k of the file is element k - 1 of the Vec,
\* which is element k of the sequence
read_line(o, line) ==
    CASE line.kind = "v" -> [o EXCEPT !.vertices = Append(@, line.value)]
      [] line.kind = "vt" ->
            [o EXCEPT !.texture_coords = Append(Append(@, line.value), line.value)]
      [] line.kind = "vn" -> [o EXCEPT !.normals = Append(@, line.value)]
      [] line.kind = "f" ->
            IF \/ \E i \in 1..3 : line.corners[i].a \notin DOMAIN o.vertices
               \/ \E i \in 1..3 : line.corners[i].b \notin DOMAIN o.texture_coords
               \/ line.corners[1].c \notin DOMAIN o.normals
            THEN [o EXCEPT !.result = Some("panicked")]
            ELSE [o EXCEPT !.faces = Append(@,
                     [ points     |-> [i \in 1..3 |-> o.vertices[line.corners[i].a]],
                       normal     |-> o.normals[line.corners[1].c],
                       tex_coords |-> [i \in 1..3 |->
                                          o.texture_coords[line.corners[i].b]] ])]

\* models.rs 18-116
ReadLine ==
    /\ loader.result = None
    /\ loader.next <= Len(loader.file)
    /\ loader' = [read_line(loader, loader.file[loader.next]) EXCEPT !.next = @ + 1]
    /\ UNCHANGED << descriptor, mouse, overlay, keys, parse, frameVars, asmVars, cfgVars >>

\* models.rs 118
ReturnFaces ==
    /\ loader.result = None
    /\ loader.next > Len(loader.file)
    /\ loader' = [loader EXCEPT !.result = Some("Ok")]
    /\ UNCHANGED << descriptor, mouse, overlay, keys, parse, frameVars, asmVars, cfgVars >>

\* no descriptor under construction, no button or key held, no frame drawn,
\* no text and no file being read
LibIdle ==
    /\ descriptor = NewBindGroupDescriptor(<< >>)
    /\ mouse = NewMouse
    /\ overlay = NewOverlay
    /\ keys = NewKeys
    /\ parse = NoParse
    /\ loader = NewObj(<< >>)

\* the scene the frame loop of Spec runs on: one material, one sphere, no mesh
StartConfig ==
    [ materials |-> Some(1), textures |-> None, spheres |-> Some(<< 0 >>),
      obj_path |-> None, obj_material_id |-> None, gltf_path |-> None,
      background_path |-> None ]

StartFiles == [image |-> "Ok", obj |-> Some(0), gltf |-> Some(<< >>), hdr |-> "Ok"]

StartScene ==
    [ pc |-> "done", materials |-> 1,
      textures |-> << Image(0, "new_rgb8"), Image(0, "new_rgb8") >>,
      triangles |-> << EmptyTriangle >>, triangles_uniform |-> 1,
      spheres |-> << 0 >>, bvh_uniform |-> 1, bvh_prim_indices |-> 1,
      bvh_printed |-> "BVH is valid", num_textureslots |-> 2,
      buffers |-> << << "Vertex Buffer", 1 >>, << "Sphere Buffer", 1 >>,
                     << "BVH Buffer", 1 >>, << "BVH Prim Indices Buffer", 1 >>,
                     << "Textures", 2 >>, << "Material Buffer", 1 >> >> ]

Init ==
    /\ FrameInit
    /\ userconfig = StartConfig
    /\ files = StartFiles
    /\ scene = StartScene
    /\ ConfigLoaded
    /\ LibIdle

Next == FrameNext

\* the session with keyboard input and the clock, at a window of fixed size
Spec == Init /\ [][Next]_vars

\* the session with resize events and the clock, with no key pressed
SpecWindow == Init /\ [][WindowNext]_vars

InitAssembly == AssemblyInit /\ FrameInit /\ ConfigLoaded /\ LibIdle

NextAssembly == AssemblyNext

\* State::new on every configuration and loader outcome within the bounds
SpecAssembly == InitAssembly /\ [][NextAssembly]_vars

\* every combination of textures on the materials of up to two glTF models,
\* each with one triangle or with triangles that cannot be retrieved
AllGltfModels ==
    [ triangles : Option({1}),
      textures : SUBSET {"base_color", "roughness", "normal", "emissive"} ]

GltfConfigs ==
    { cfg \in Configs :
          /\ cfg.gltf_path = Some("scene.gltf")
          /\ cfg.obj_path # Some("")
          /\ cfg.spheres = None
          /\ cfg.background_path = None }

GltfFiles ==
    [ image : {"Ok"},
      obj : Option(0..MaxTriangles),
      gltf : {Some(models) : models \in SeqUpTo(AllGltfModels, 2)},
      hdr : {"Ok"} ]

InitGltf ==
    /\ userconfig \in GltfConfigs
    /\ files \in GltfFiles
    /\ Relevant(userconfig, files)
    /\ scene = NewScene
    /\ FrameInit
    /\ ConfigLoaded
    /\ LibIdle

InitConfig ==
    /\ toml \in Tomls
    /\ startup = NewStartup
    /\ userconfig = StartConfig
    /\ files = StartFiles
    /\ scene = NewScene
    /\ FrameInit
    /\ LibIdle

NextConfig == setup_gpu

\* setup_gpu on every configuration text
SpecConfig == InitConfig /\ [][NextConfig]_vars

InitBindings ==
    /\ descriptor \in {NewBindGroupDescriptor(bindings) :
                           bindings \in SeqUpTo(BufferTypes, MaxBindings)}
    /\ mouse = NewMouse
    /\ overlay = NewOverlay
    /\ keys = NewKeys
    /\ parse = NoParse
    /\ loader = NewObj(<< >>)
    /\ FrameInit
    /\ userconfig = StartConfig
    /\ files = StartFiles
    /\ scene = StartScene
    /\ ConfigLoaded

InitParse ==
    /\ parse \in [input : ParseInputs, result : {None}]
    /\ descriptor = NewBindGroupDescriptor(<< >>)
    /\ mouse = NewMouse
    /\ overlay = NewOverlay
    /\ keys = NewKeys
    /\ loader = NewObj(<< >>)
    /\ FrameInit
    /\ userconfig = StartConfig
    /\ files = StartFiles
    /\ scene = StartScene
    /\ ConfigLoaded

InitObj ==
    /\ loader \in {NewObj(file) : file \in ObjFiles}
    /\ descriptor = NewBindGroupDescriptor(<< >>)
    /\ mouse = NewMouse
    /\ overlay = NewOverlay
    /\ keys = NewKeys
    /\ parse = NoParse
    /\ FrameInit
    /\ userconfig = StartConfig
    /\ files = StartFiles
    /\ scene = StartScene
    /\ ConfigLoaded

\* load_obj on every file within the bounds
SpecObj == InitObj /\ [][ReadLine \/ ReturnFaces]_vars

\* Config::from_str on every configuration text within the bounds
SpecParse == InitParse /\ [][ParseConfig]_vars

\* movement keys pressed and released, with the overlay in front
SpecKeys == Init /\ [][NextKeys]_vars

\* FPS history and overlay over the first frames
SpecOverlay == Init /\ [][NextOverlay]_vars

\* mouse look on the scene of Spec
SpecMouse == Init /\ [][NextMouse]_vars

\* layout and bind group generated from every declaration within the bound
SpecBindings == InitBindings /\ [][NextBindings]_vars

\* State::new on glTF assets after configured materials, textures and an
\* OBJ mesh
SpecGltf == InitGltf /\ [][NextAssembly]_vars

\* ========================================================================
\* Properties of the frame orchestrator
\* ========================================================================
IsPrefix(s, t) ==
    /\ Len(s) <= Len(t)
    /\ \A i \in 1..Len(s) : s[i] = t[i]

FrameStarts == camera_uniform'.frame # camera_uniform.frame

WritesTo(ws, buffer) == \E i \in DOMAIN ws : ws[i][1] = buffer

IsDenoise(o) == o.cmd.site \in {"den1", "den2"}

\* the frame of the pass and the frame rendered before it are consecutive
\* and the camera did not move between them
ConsecutiveStationary(c) ==
    /\ c.prev # NoUniform
    /\ c.frame.frame = c.prev.frame + 1
    /\ c.frame.view_position = c.prev.view_position

\* C1: within a frame the stages are issued in the order UPDATE_UNIFORMS,
\* RAY_TRACE_PASS, DENOISE_PASS 0, DENOISE_PASS 1, PRESENT_PASS,
\* FRAME_PACE_WAIT, each once: the stages issued so far are always a prefix
\* of that sequence (or, when the surface image could not be acquired, the
\* update and the pacing alone), a rendered frame has reached PRESENT_PASS
\* when render returns, and the next frame starts only after a rendered
\* frame has gone through all six stages.
C1_StageOrder ==
    /\ [](/\ \/ IsPrefix(stages, FrameStages)
             \/ /\ acquire # "Ok"
                /\ stages \in { << >>, << "FRAME_PACE_WAIT" >>,
                                << "UPDATE_UNIFORMS" >>,
                                << "UPDATE_UNIFORMS", "FRAME_PACE_WAIT" >> }
          /\ (pc = "idle" /\ acquire = "Ok") => Len(stages) >= 5)
    /\ [][FrameStarts /\ acquire = "Ok" => stages = FrameStages]_vars

C1_Witness ==
    /\ stages = FrameStages
    /\ camera_uniform.frame = 2
    /\ last_rendered.frame = 2

\* C2: the write of the live camera uniform to the denoise-reference buffer
\* is staged only with the presentation submission, after both denoise
\* submissions of the frame; so both denoise passes of a frame that is not
\* the first rendered one read as reference the uniform that was live in the
\* frame rendered before it, which differs from their own frame's uniform.
C2_ReferenceIsPreviousFrame ==
    /\ (pc \in {"pass1", "pass2"}) => ~WritesTo(pending, "denoising_camera_buffer")
    /\ \A i \in DOMAIN gpuQueue :
          WritesTo(gpuQueue[i].writes, "denoising_camera_buffer")
              => gpuQueue[i].cmds[1].site = "present"
    /\ \A i \in DOMAIN obs :
          (IsDenoise(obs[i]) /\ obs[i].cmd.prev # NoUniform) =>
              /\ obs[i].reference = obs[i].cmd.prev
              /\ obs[i].reference.frame < obs[i].cmd.frame.frame
              /\ obs[i].live = obs[i].cmd.frame

C2_Witness ==
    \E i \in DOMAIN obs :
        /\ obs[i].cmd.site = "den2"
        /\ obs[i].cmd.prev # NoUniform
        /\ obs[i].cmd.prev.view_position # obs[i].cmd.frame.view_position

\* C3 as claimed: after two consecutive rendered frames with a stationary
\* camera, the denoise-reference buffer seen once the second frame has been
\* executed holds the live uniform of the first of the two frames.
C3_ReferenceAfterFrame2IsFrame1 ==
    \A i \in DOMAIN obs :
        (obs[i].cmd.site = "present" /\ ConsecutiveStationary(obs[i].cmd)) =>
            gpuBuf["denoising_camera_buffer"] = obs[i].cmd.prev

\* C3 amended: after two consecutive rendered frames with a stationary
\* camera, both denoise passes of the second frame read a reference holding
\* the live uniform of the first frame; once the presentation submission of
\* the second frame has executed, the reference holds the live uniform of
\* the second frame, whose frame counter is one more than the first's.
C3_ReferenceAfterFrame2IsFrame2 ==
    \A i \in DOMAIN obs :
        ConsecutiveStationary(obs[i].cmd) =>
            /\ IsDenoise(obs[i]) => obs[i].reference.frame = obs[i].cmd.frame.frame - 1
            /\ obs[i].cmd.site = "present" =>
                  /\ gpuBuf["denoising_camera_buffer"] = obs[i].cmd.frame
                  /\ gpuBuf["denoising_camera_buffer"].frame = obs[i].cmd.prev.frame + 1

C3_Witness ==
    \E i \in DOMAIN obs :
        /\ obs[i].cmd.site = "present"
        /\ ConsecutiveStationary(obs[i].cmd)
        /\ gpuQueue = << >>

\* C4: the first denoise dispatch of every frame runs with the pass-index
\* uniform equal to 0 and the second with it equal to 1.
C4_PassIndex ==
    \A i \in DOMAIN obs :
        /\ obs[i].cmd.site = "den1" => obs[i].pass = 0
        /\ obs[i].cmd.site = "den2" => obs[i].pass = 1

C4_Witness ==
    \E i \in DOMAIN obs :
        /\ obs[i].cmd.site = "den1"
        /\ obs[i].cmd.prev # NoUniform
        /\ obs[i].pass = 0

\* C5 as claimed: when the ray-tracing pass is about to be recorded after a
\* resize event of positive area, the colour buffer, the history texture and
\* the surface have the extent of that event and the aspect ratio is its
\* width / height.
C5_ResizedResources ==
    (pc = "pass1" /\ last_resize # << >> /\ last_resize[1] > 0 /\ last_resize[2] > 0) =>
        /\ color_buffer = last_resize
        /\ denoising_texture = last_resize
        /\ win.surface.extent = last_resize
        /\ win.projection = Aspect(last_resize[1], last_resize[2])

\* C6: a resize event whose width or height is 0 changes neither the stored
\* size, the surface configuration, the surface, the aspect ratio nor any
\* GPU resource or queued work.
C6_ZeroResizeIgnored ==
    [][(last_resize' # last_resize /\ (last_resize'[1] = 0 \/ last_resize'[2] = 0)) =>
          UNCHANGED << win, color_buffer, denoising_texture, gpuBuf, gpuQueue,
                       pending, camera_uniform, shader_config >>]_vars

C6_Witness ==
    /\ last_resize = << 8, 0 >>
    /\ win.size = << 8, 8 >>

\* C7: when the surface image cannot be acquired, nothing of the frame is
\* submitted; on Lost or Outdated the surface is configured again at the
\* stored size and the loop goes on; on OutOfMemory the loop exits and no
\* frame is started any more; on Timeout nothing changes and the loop goes on.
C7_AcquireFailure ==
    /\ [][(FrameStarts /\ acquire' # "Ok") =>
            /\ gpuQueue' = gpuQueue
            /\ stages' = << "UPDATE_UNIFORMS" >>
            /\ pc' = "idle"
            /\ acquire' \in {"Lost", "Outdated"} =>
                  /\ win'.surface = [extent |-> win.size, status |-> "ok"]
                  /\ win'.size = win.size
                  /\ win'.config = win.size
                  /\ running'
            /\ acquire' = "OutOfMemory" => ~running'
            /\ acquire' = "Timeout" => (running' /\ win' = win)]_vars
    /\ [][~running => (/\ ~running'
                       /\ UNCHANGED << camera_uniform, stages, pc, pending >>
                       /\ Len(gpuQueue') <= Len(gpuQueue))]_vars

C7_Witness ==
    /\ acquire = "Lost"
    /\ stages = << "UPDATE_UNIFORMS" >>
    /\ win.surface.status = "ok"
    /\ camera_uniform.frame = 2

\* C8: the AboutToWait handler lets 1/L - t pass when the frame limit L is
\* not 0 and the time t since the start of the last frame is below 1/L, lets
\* no time pass otherwise, and leaves a redraw requested.
C8_FramePacing ==
    [][(stages' = Append(stages, "FRAME_PACE_WAIT")) =>
          /\ (frame_limit # 0 /\ elapsed * frame_limit < TicksPerSecond) =>
                (elapsed' - elapsed) * frame_limit
                    = TicksPerSecond - elapsed * frame_limit
          /\ (frame_limit = 0 \/ elapsed * frame_limit >= TicksPerSecond) =>
                elapsed' = elapsed
          /\ ~redraw_requested /\ redraw_requested']_vars

C8_Witness ==
    /\ stages = << "UPDATE_UNIFORMS", "FRAME_PACE_WAIT" >>
    /\ frame_limit = 120
    /\ elapsed = 1
    /\ redraw_requested

\* the observations in os of the dispatch recorded at site
At(os, site) == {i \in DOMAIN os : os[i].cmd.site = site}

\* the second denoise dispatch of a frame runs in this step
SecondDenoiseRuns == obs' # obs /\ At(obs', "den2") # {}

\* how many of the two denoise dispatches of the frame read the reference,
\* the first one having run in the step before
ReferenceReads ==
    Cardinality({i \in At(obs, "den1") : ReadsReference(obs[i])})
    + Cardinality({j \in At(obs', "den2") : ReadsReference(obs'[j])})

RefWrites(ws) == Cardinality({i \in DOMAIN ws : ws[i][1] = "denoising_camera_buffer"})

SessionBuffers ==
    {"camera_buffer", "shader_config_buffer", "denoising_pass_buffer",
     "denoising_camera_buffer"}

GeometryBuffers ==
    {"Vertex Buffer", "Sphere Buffer", "Material Buffer", "Background Buffer",
     "Textures", "BVH Buffer", "BVH Prim Indices Buffer"}

\* the buffers named by the writes staged on the queue or submitted and
\* not yet executed
WrittenBuffers ==
    {pending[i][1] : i \in DOMAIN pending}
    \cup UNION {{gpuQueue[i].writes[j][1] : j \in DOMAIN gpuQueue[i].writes} :
                   i \in DOMAIN gpuQueue}

C9_MaterialIdsResolved ==
    scene.pc = "done" =>
        /\ \A i \in DOMAIN scene.triangles :
              ~scene.triangles[i].empty =>
                  scene.triangles[i].material_id < scene.materials
        /\ \A i \in DOMAIN scene.spheres : scene.spheres[i] < scene.materials

\* C10 as claimed: every array handed to a GPU buffer during assembly
\* (triangles, spheres, BVH nodes, primitive indices, texture layers,
\* materials) has at least one element.
C10_NoEmptyBuffer ==
    \A i \in DOMAIN scene.buffers : scene.buffers[i][2] >= 1

\* C11 as claimed: a scene with no mesh, no sphere and no texture is
\* assembled with exactly one placeholder triangle, exactly one placeholder
\* texture-array entry and a BVH over one primitive that validates.
C11_EmptyScene ==
    ( /\ scene.pc = "done"
      /\ userconfig.obj_path = None /\ userconfig.gltf_path = None
      /\ userconfig.spheres = None /\ userconfig.textures = None ) =>
        /\ scene.triangles = << EmptyTriangle >>
        /\ scene.num_textureslots = 1
        /\ scene.bvh_prim_indices = 1
        /\ scene.bvh_printed = "BVH is valid"

\* C12 as claimed: a BVH that fails validation ends assembly in the fatal
\* exit, and neither BVH buffer is created from it.
C12_InvalidBvhIsFatal ==
    scene.bvh_printed = "BVH is invalid" =>
        /\ scene.pc = "exit"
        /\ \A i \in DOMAIN scene.buffers :
              scene.buffers[i][1] \notin {"BVH Buffer", "BVH Prim Indices Buffer"}

\* the texture kind behind each of the three texture ids of a triangle
TextureSlots == << "base_color", "roughness", "normal" >>

\* materials and images assembled from the configuration before the meshes
EarlierMaterials == IF userconfig.materials = None THEN 0 ELSE userconfig.materials[1]

EarlierTextures == IF userconfig.textures = None THEN 0 ELSE userconfig.textures[1]

\* C15: once the meshes are loaded, a triangle of the k-th glTF model (k from
\* 1 here, so m + k - 1 for the claim's m + k) carries the material id
\* m + k - 1, which lies in the combined material array past the m earlier
\* materials; each of its texture ids is -1 when the model has no such
\* texture, and otherwise the index in the combined texture array that
\* holds this model's image of that kind, past the t earlier images.
C15_GltfIds ==
    scene.pc \in {"spheres", "bvh", "textures", "done"} =>
        \A i \in DOMAIN scene.triangles :
            LET tr == scene.triangles[i]
                k == tr.model
            IN  k >= 1 =>
                  /\ tr.material_id = EarlierMaterials + k - 1
                  /\ tr.material_id < scene.materials
                  /\ \A j \in 1..3 :
                        IF TextureSlots[j] \in files.gltf[1][k].textures
                        THEN /\ tr.texture_ids[j] >= EarlierTextures
                             /\ tr.texture_ids[j] < Len(scene.textures)
                             /\ scene.textures[tr.texture_ids[j] + 1]
                                    = Image(k, TextureSlots[j])
                        ELSE tr.texture_ids[j] = -1

\* a second model with a normal map only, after a first model whose
\* triangles could not be retrieved and whose material has a base colour
\* and an emissive texture, after one configured material and one
\* configured image
C15_Witness ==
    /\ scene.pc = "done"
    /\ userconfig.materials = Some(1) /\ userconfig.textures = Some(1)
    /\ files.gltf = Some(<< [triangles |-> None, textures |-> {"base_color", "emissive"}],
                            [triangles |-> Some(1), textures |-> {"normal"}] >>)
    /\ \E i \in DOMAIN scene.triangles :
          /\ scene.triangles[i].model = 2
          /\ scene.triangles[i].material_id = 2
          /\ scene.triangles[i].texture_ids = << -1, -1, 3 >>

\* a loader that State::new delegates to reports a failure on this input
LoaderFails ==
    \/ userconfig.textures \notin {None, Some(0)} /\ files.image = "Err"
    \/ userconfig.obj_path = Some("mesh.obj") /\ files.obj = None
    \/ /\ userconfig.gltf_path = Some("scene.gltf")
       /\ \/ files.gltf = None
          \/ \E k \in DOMAIN files.gltf[1] : files.gltf[1][k].triangles = None
    \/ userconfig.background_path = Some("sky.hdr") /\ files.hdr = "Err"

\* C16 as claimed: when a texture image, the OBJ mesh, the glTF asset, the
\* triangles of one of its models or the environment image cannot be
\* loaded, assembly never completes with a scene.
C16_LoaderFailureIsFatal == LoaderFails => scene.pc # "done"

\* ========================================================================
\* Properties of configuration loading
\* ========================================================================
\* the required fields of the text that are missing or of the wrong type
Offending(t) ==
    { f \in {"position", "rotation", "fov"} : t[f] # "ok" }
    \cup { f \in {"materials", "background", "spheres"} : t[f] = "invalid" }

\* C17 as claimed: when the text has missing or invalid required fields,
\* loading rejects it before any GPU resource exists and reports one error
\* for each of these fields.
C17_RejectedBeforeGpu ==
    (Offending(toml) # {} /\ startup.pc \notin {"instance", "adapter", "configure", "config"}) =>
        /\ startup.pc = "rejected"
        /\ startup.resources = << >>
        /\ Len(startup.userconfig[1].errors) = Cardinality(Offending(toml))

ValidCamera(t) ==
    /\ t.camera = "present"
    /\ t.position = "ok" /\ t.rotation = "ok" /\ t.fov = "ok"
    /\ t.near_far # "invalid"

\* C18: when the camera section is valid and every other section is either
\* well-formed or absent, loading succeeds, and the field of each absent
\* section is None; absent 3d_model_paths give no mesh path.
C18_AbsentSectionsAreNone ==
    ( /\ startup.userconfig # None
      /\ ValidCamera(toml)
      /\ \A f \in {"materials", "textures", "background", "spheres"} :
            toml[f] \in {"ok", "absent"} ) =>
        LET result == startup.userconfig[1]
        IN  /\ result.ok
            /\ \A f \in {"materials", "textures", "background", "spheres"} :
                  toml[f] = "absent" => result.value[1][f] = None
            /\ toml.model_paths = "absent" =>
                  /\ result.value[1].model_paths.gltf_path = None
                  /\ result.value[1].model_paths.obj_path = None

\* only the spheres section is present besides the camera
C18_Witness ==
    /\ startup.pc = "done"
    /\ ValidCamera(toml)
    /\ toml.materials = "absent" /\ toml.textures = "absent"
    /\ toml.background = "absent" /\ toml.model_paths = "absent"
    /\ toml.spheres = "ok"
    /\ startup.userconfig[1].value[1].materials = None
    /\ startup.userconfig[1].value[1].spheres # None

\* ========================================================================
\* Properties of the binding-set declarations
\* ========================================================================
\* the binding type each declared kind stands for
DeclaredKind(ty) ==
    CASE ty = "BufferStorage" -> << "Buffer", "Storage { read_only: true }" >>
      [] ty = "BufferUniform" -> << "Buffer", "Uniform" >>
      [] ty = "StorageTexture" -> << "StorageTexture" >>
      [] ty = "TextureView" -> << "Texture" >>
      [] ty = "Sampler" -> << "Sampler", "Filtering" >>

\* C21: a generated layout has as many entries as the declaration has
\* resources, its i-th entry (from 0) has binding index i and the binding
\* type of the i-th declared kind; a generated bind group has as many
\* entries, its i-th entry has binding index i and holds the i-th declared
\* resource, and it is only generated together with the layout.
C21_LayoutMatchesBindGroup ==
    LET n == Len(descriptor.bindings)
    IN  /\ descriptor.layout # None =>
              LET layout == descriptor.layout[1]
              IN  /\ Len(layout) = n
                  /\ \A i \in 1..n :
                        /\ layout[i].binding = i - 1
                        /\ layout[i].ty.ty = DeclaredKind(descriptor.bindings[i].ty)[1]
                        /\ descriptor.bindings[i].ty \in {"BufferStorage", "BufferUniform"}
                              => layout[i].ty.detail
                                    = DeclaredKind(descriptor.bindings[i].ty)[2]
        /\ descriptor.bind_group # None =>
              LET entries == descriptor.bind_group[1]
              IN  /\ descriptor.layout # None
                  /\ Len(entries) = n
                  /\ \A i \in 1..n :
                        /\ entries[i].binding = i - 1
                        /\ entries[i].binding = descriptor.layout[1][i].binding
                        /\ entries[i].resource = descriptor.bindings[i].resource

\* a uniform buffer, a storage texture and a sampler, declared in this order
C21_Witness ==
    /\ Len(descriptor.bindings) = 3
    /\ descriptor.bindings[1].ty = "BufferUniform"
    /\ descriptor.bindings[2].ty = "StorageTexture"
    /\ descriptor.bindings[3].ty = "Sampler"
    /\ descriptor.bindings[1].resource # descriptor.bindings[3].resource
    /\ descriptor.bind_group # None
    /\ descriptor.layout[1][3].binding = 2

\* ========================================================================
\* Properties of the dispatch sizes
\* ========================================================================
\* C23 as claimed: every ray-tracing dispatch and every denoise dispatch,
\* also after resize events, runs ceil(W / 8) x ceil(H / 8) x 1 workgroups
\* where W x H is the extent of the colour buffer it writes.
C23_DispatchCoversColorBuffer ==
    \A i \in DOMAIN obs :
        obs[i].cmd.site \in {"ray", "den1", "den2"} =>
            obs[i].cmd.groups = Workgroups(color_buffer)

\* ========================================================================
\* Properties of the settings overlay
\* ========================================================================
ComputeSites == {"ray", "den1", "den2"}

\* the buffers the writes ws are addressed to
Written(ws) == {ws[i][1] : i \in DOMAIN ws}

\* the overlay changes ShaderConfig in this step
OverlayEdits == shader_config' # shader_config

\* C26: the overlay changes ShaderConfig only while the frame is presented,
\* after the ray-tracing and both denoise passes of the frame were
\* submitted: the step leaves the GPU buffers and the submissions already
\* queued as they are and adds one submission that holds the presentation
\* pass alone and no write of the ShaderConfig buffer.  Every update stages
\* the ShaderConfig the overlay left behind, so every ray-tracing and
\* denoise pass runs with the ShaderConfig the program held when its frame
\* was updated.  Whatever the overlay chose, the frame consisted of the
\* update, the ray-tracing pass, the two denoise passes and the
\* presentation, in this order.
C26_OverlayConfigNextFrame ==
    /\ [](\A i \in DOMAIN obs :
             obs[i].cmd.site \in ComputeSites => obs[i].config = obs[i].cmd.settings)
    /\ [][OverlayEdits =>
             /\ pc = "present"
             /\ gpuBuf' = gpuBuf
             /\ Len(gpuQueue') = Len(gpuQueue) + 1
             /\ SubSeq(gpuQueue', 1, Len(gpuQueue)) = gpuQueue
             /\ gpuQueue'[Len(gpuQueue')].cmds = << Cmd("present") >>
             /\ "shader_config_buffer" \notin Written(gpuQueue'[Len(gpuQueue')].writes)
             /\ stages' = SubSeq(FrameStages, 1, 5)]_vars
    /\ [][stages' = << "UPDATE_UNIFORMS" >> =>
             /\ pending' # << >>
             /\ pending'[Len(pending')] = << "shader_config_buffer", shader_config >>]_vars

\* a pass of the frame after an edit ran with the edited ShaderConfig
C26_Witness ==
    \E i \in DOMAIN obs :
        /\ obs[i].cmd.site = "ray"
        /\ obs[i].cmd.frame.frame = 2
        /\ obs[i].config # DefaultShaderConfig
        /\ obs[i].config = obs[i].cmd.settings

\* ========================================================================
\* Properties of the camera controller
\* ========================================================================
\* an update runs in this step, over dt ticks
Updates(dt) ==
    /\ mouse'.updates = mouse.updates + 1
    /\ mouse'.yaw - mouse.yaw = mouse.rotate_horizontal * Sensitivity * dt

\* C22 as claimed: the rotation an update applies is that of the sum of all
\* mouse deltas forwarded to the controller since the update before, so
\* none of them is lost.
C22_AllMotionsIntegrated ==
    [][\A dt \in UpdateTicks :
          Updates(dt) =>
              mouse'.yaw - mouse.yaw = -Sum(mouse.motions) * Sensitivity * dt]_vars

\* ========================================================================
\* Properties of the FPS history
\* ========================================================================
\* the sample of the k-th most recent frame
Recent(k) == overlay.history[Len(overlay.history) + 1 - k]

Drawn == overlay.shown # None /\ overlay.pc = "update"

\* C24 as claimed: the FPS the overlay displays is the average of the
\* samples of the 20 most recent frames (of all frames while fewer than 20
\* were rendered, the first sample standing in for the missing ones).
C24_AverageOfNewest ==
    Drawn =>
        overlay.shown[1].avg_fps = Sum(Take(overlay.fps, AverageLen))

\* C25: whenever the overlay has been drawn, from the first frame on, the
\* FPS history holds exactly 100 samples, newest first (the k-th entry is
\* the sample of the k-th most recent frame, the entries beyond the frames
\* rendered so far are the first sample), and the plot read its 100 points
\* within the bounds of the history.
C25_HistoryFull ==
    Drawn =>
        /\ Len(overlay.fps) = HistoryLen
        /\ \A k \in 1..HistoryLen :
               overlay.fps[k] = IF k <= Len(overlay.history) THEN Recent(k)
                                ELSE overlay.history[1]
        /\ ~overlay.shown[1].panicked
        /\ Len(overlay.shown[1].plot) = HistoryLen

\* the overlay drawn in the first frame, and in a later frame with another
\* frame rate
C25_Witness ==
    /\ Drawn
    /\ Len(overlay.history) >= 2
    /\ overlay.history[1] # Recent(1)
    /\ Len(overlay.shown[1].plot) = HistoryLen

\* ========================================================================
\* Properties of the movement keys
\* ========================================================================
\* C27 as claimed: a movement key whose last delivered event is a release
\* (or that was never pressed) has movement amount 0, whether or not the
\* overlay handled the event first; and an update that runs while both keys
\* of an axis are released leaves the camera where it is.
C27_ReleaseStopsCamera ==
    /\ [](\A key \in MovementKeys : ~keys.down[key] => keys.amount[key] = 0)
    /\ [][(keys'.updates # keys.updates /\ \A key \in MovementKeys : ~keys.down[key]) =>
             keys'.position = keys.position]_vars

\* ========================================================================
\* Properties of Config::from_str
\* ========================================================================
Parsed == parse.result # None

\* an array of the text is shorter than what is read from it
ShortArray(text) ==
    \/ text.camera.position # None /\ Len(text.camera.position[1]) < 3
    \/ text.camera.rotation # None /\ Len(text.camera.rotation[1]) < 2
    \/ text.camera.near_far # None /\ Len(text.camera.near_far[1]) < 2
    \/ /\ text.spheres # None
       /\ \E i \in DOMAIN text.spheres[1] :
              /\ ~text.spheres[1][i].empty
              /\ Len(text.spheres[1][i].texture_id[1]) < 3

\* C28 as claimed: Config::from_str returns Ok or Err for every text and
\* never panics, and a text with a camera position of fewer than 3, a
\* rotation or near_far of fewer than 2 or a sphere texture_id of fewer
\* than 3 elements yields Err.
C28_NoPanic ==
    Parsed =>
        /\ "panic" \notin DOMAIN parse.result[1]
        /\ ShortArray(parse.input) => ~parse.result[1].ok

FullySpecified(v) ==
    /\ ~v.empty
    /\ v.radius # None
    /\ Len(v.texture_id[1]) = 3

\* the sphere the text of a fully specified entry describes
Declared(v) ==
    [ center |-> << v.position[1][1].value, v.position[1][2].value,
                   v.position[1][3].value, 0 >>,
      radius |-> << v.radius[1].value, 0, 0, 0 >>,
      material_texture_id |-> << v.material_id[1].value, v.texture_id[1][1].value,
                                 v.texture_id[1][2].value, v.texture_id[1][3].value >> ]

DeclaredSpheres(entries) ==
    LET full == SelectSeq(entries, FullySpecified)
    IN  [i \in DOMAIN full |-> Declared(full[i])]

\* C29 as claimed: when a text with a [[spheres]] list loads, the loaded
\* list holds the sphere of every fully specified entry, in the order of
\* the text, with centre (x, y, z, 0), radius (r, 0, 0, 0) and the ids
\* (material_id, texture_id[0], texture_id[1], texture_id[2]); an empty
\* entry among them removes none of the others.
C29_SpheresKept ==
    (Parsed /\ parse.result[1].ok /\ parse.input.spheres # None) =>
        LET loaded == parse.result[1].value.spheres
        IN  (IF loaded = None THEN << >> ELSE loaded[1])
                = DeclaredSpheres(parse.input.spheres[1])

\* ========================================================================
\* Properties of load_obj
\* ========================================================================
\* the lines of a kind, in the order of the file
LinesOf(kind) == SelectSeq(loader.file, LAMBDA line : line.kind = kind)

\* C30 as claimed: when a file has loaded, the triangle built from its
\* k-th face line 'f a/b/c ...' stores for each corner the position that
\* the a-th 'v' line declares and the texture coordinate that the b-th
\* 'vt' line declares, however many 'vt' lines the file has.
C30_FaceCorners ==
    loader.result = Some("Ok") =>
        /\ Len(loader.faces) = Len(LinesOf("f"))
        /\ \A k \in DOMAIN loader.faces : \A i \in 1..3 :
               /\ loader.faces[k].points[i]
                      = LinesOf("v")[LinesOf("f")[k].corners[i].a].value
               /\ loader.faces[k].tex_coords[i]
                      = LinesOf("vt")[LinesOf("f")[k].corners[i].b].value

====
